---------------------------- MODULE Spec2Model ----------------------------
(***************************************************************************)
(* Model of the hybrid retail analytics agent: the LangGraph workflow of   *)
(* agent/graph_hybrid.py (HybridAgent), with the parts of                  *)
(* agent/dspy_signatures.py and agent/tools/sqlite_tool.py its nodes call. *)
(*                                                                         *)
(* Text is a sequence of one-character strings, SQL text a sequence of     *)
(* tokens.  The outputs of the language model, of the retriever and of the *)
(* database are inputs of the run: every call draws one from a small set.  *)
(***************************************************************************)
EXTENDS Integers, Sequences, FiniteSets, TLC

VARIABLES
    state,   \* the AgentState of the run
    pc,      \* the node the graph runs next, "END" when the run is over
    calls,   \* how often each node has run
    reply,   \* what the collaborator called by the last node answered
    output,  \* the output record of the question, once there is one
    commits, \* how often the database connection has been committed
    citing,  \* a call of the citation parsing of Synthesizer.forward
    batch,   \* a call of process_batch: its questions, results, output file
    rag      \* a RAGRetriever: its documents, its chunks, a call of retrieve

vars == <<state, pc, calls, reply, output, commits, citing, batch, rag>>

\* the variables of the components that are looked at on their own
unitVars == <<citing, batch, rag>>

\* the variables of a run of the agent on one question
runVars == <<state, pc, calls, reply, output, commits>>

(***************************************************************************)
(* Bounds of the model.                                                    *)
(***************************************************************************)
\* the trace keeps its first MaxTrace records; later records are dropped
MaxTrace == 11
\* the per-node invocation counters stop counting at MaxCalls
MaxCalls == 4

(***************************************************************************)
(* Python values.                                                          *)
(***************************************************************************)
None == "<None>"

\* bool(x) of a value that is None or a string
Truthy(x) == x # None /\ x # ""

\* the empty dict {}
EmptyDict == [k \in {} |-> None]

\* d.get(key, default)
Get(d, key, default) == IF key \in DOMAIN d THEN d[key] ELSE default

Min(a, b) == IF a < b THEN a ELSE b

Max(a, b) == IF a > b THEN a ELSE b

(***************************************************************************)
(* str.lower(), str.strip() on sequences of characters.                    *)
(***************************************************************************)
Whitespace == {" ", "\n", "\t"}

LowerChar(c) ==
    CASE c = "A" -> "a" [] c = "B" -> "b" [] c = "D" -> "d" [] c = "G" -> "g"
      [] c = "H" -> "h" [] c = "I" -> "i" [] c = "L" -> "l" [] c = "Q" -> "q"
      [] c = "R" -> "r" [] c = "S" -> "s" [] c = "Y" -> "y"
      [] OTHER -> c

lower(s) == [i \in 1..Len(s) |-> LowerChar(s[i])]

RECURSIVE lstrip(_)
lstrip(s) == IF s # <<>> /\ Head(s) \in Whitespace THEN lstrip(Tail(s)) ELSE s

RECURSIVE rstrip(_)
rstrip(s) ==
    IF s # <<>> /\ s[Len(s)] \in Whitespace
    THEN rstrip(SubSeq(s, 1, Len(s) - 1))
    ELSE s

strip(s) == rstrip(lstrip(s))

(***************************************************************************)
(* Router.forward: the classifier's text, lower-cased and trimmed, is kept *)
(* when it names a mode and replaced by 'hybrid' otherwise.                *)
(***************************************************************************)
Modes == {"rag", "sql", "hybrid"}

Chars(name) ==
    CASE name = "rag" -> <<"r", "a", "g">>
      [] name = "sql" -> <<"s", "q", "l">>
      [] name = "hybrid" -> <<"h", "y", "b", "r", "i", "d">>

\* what the classifier may answer (result.mode)
RouterOutputs ==
    { <<"r", "a", "g">>,
      <<" ", "S", "Q", "L", "\n">>,
      <<"H", "y", "b", "r", "i", "d">>,
      <<"s", "q", "l", ".">>,
      <<"b", "o", "t", "h">>,
      <<>> }

\* the classifier's text is lower-cased but not trimmed
Router_forward_untrimmed(raw) ==
    LET mode == lower(raw)
    IN IF \E m \in Modes : Chars(m) = mode
       THEN CHOOSE m \in Modes : Chars(m) = mode
       ELSE "hybrid"

Router_forward(raw) ==
    LET mode == strip(lower(raw))
    IN IF \E m \in Modes : Chars(m) = mode
       THEN CHOOSE m \in Modes : Chars(m) = mode
       ELSE "hybrid"

(***************************************************************************)
(* float(text): the decimal notation the model's texts use (an optional    *)
(* sign, digits, at most one point).  Values are kept in tenths: 7 is 0.7. *)
(***************************************************************************)
Digits == {"0", "1", "2", "3", "4", "5", "6", "7", "8", "9"}

DigitVal(c) ==
    CASE c = "0" -> 0 [] c = "1" -> 1 [] c = "2" -> 2 [] c = "3" -> 3
      [] c = "4" -> 4 [] c = "5" -> 5 [] c = "6" -> 6 [] c = "7" -> 7
      [] c = "8" -> 8 [] c = "9" -> 9

Unsigned(s) ==
    LET t == strip(s)
    IN IF t # <<>> /\ Head(t) \in {"+", "-"} THEN Tail(t) ELSE t

\* whether float(s) returns (TRUE) or raises ValueError (FALSE)
IsFloat(s) ==
    LET u == Unsigned(s)
    IN /\ \A i \in 1..Len(u) : u[i] \in Digits \cup {"."}
       /\ Cardinality({i \in 1..Len(u) : u[i] = "."}) <= 1
       /\ \E i \in 1..Len(u) : u[i] \in Digits

RECURSIVE IntValue(_)
IntValue(ds) ==
    IF ds = <<>> THEN 0
    ELSE 10 * IntValue(SubSeq(ds, 1, Len(ds) - 1)) + DigitVal(ds[Len(ds)])

\* float(s) in tenths, for a text with at most one digit after the point
FloatTenths(s) ==
    LET t == strip(s)
        u == Unsigned(s)
        dots == {i \in 1..Len(u) : u[i] = "."}
        p == IF dots = {} THEN Len(u) + 1 ELSE CHOOSE i \in dots : TRUE
        whole == IntValue(SubSeq(u, 1, p - 1))
        frac == IF p < Len(u) THEN DigitVal(u[p + 1]) ELSE 0
        mag == 10 * whole + frac
    IN IF t # <<>> /\ Head(t) = "-" THEN 0 - mag ELSE mag

(***************************************************************************)
(* str.split(sep), str.replace(ch, ''), 'sub in s' on character sequences. *)
(***************************************************************************)
RECURSIVE split(_, _)
split(s, sep) ==
    IF \E i \in 1..Len(s) : s[i] = sep
    THEN LET i == CHOOSE j \in 1..Len(s) :
                      s[j] = sep /\ \A h \in 1..(j - 1) : s[h] # sep
         IN <<SubSeq(s, 1, i - 1)>> \o split(SubSeq(s, i + 1, Len(s)), sep)
    ELSE <<s>>

remove(s, ch) == SelectSeq(s, LAMBDA c : c # ch)

contains(s, sub) ==
    \E i \in 1..(Len(s) - Len(sub) + 1) : SubSeq(s, i, i + Len(sub) - 1) = sub

\* sep.join(parts), for texts that are sequences (of characters or of tokens)
RECURSIVE join(_, _)
join(parts, sep) ==
    IF parts = <<>> THEN <<>>
    ELSE IF Len(parts) = 1 THEN parts[1]
    ELSE parts[1] \o sep \o join(Tail(parts), sep)

(***************************************************************************)
(* Synthesizer.forward: the model's answer is returned as it is, its       *)
(* citations text is split on commas, its confidence parsed and clamped.   *)
(* A model output is a str (kind "str", with its text) or another Python   *)
(* value (kind "set": a set, which json.dumps rejects, with its str()).    *)
(***************************************************************************)
Str(text) == [kind |-> "str", text |-> text]

\* the tokens are kept when they hold one colon
ParseCitations_single_colon(citations_str) ==
    IF citations_str.kind = "str"
    THEN LET kept == SelectSeq(split(citations_str.text, ","),
                               LAMBDA c : contains(c, <<":">>))
         IN [i \in 1..Len(kept) |-> strip(kept[i])]
    ELSE <<>>

ParseCitations(citations_str) ==
    IF citations_str.kind = "str"
    THEN LET kept == SelectSeq(split(citations_str.text, ","),
                               LAMBDA c : contains(c, <<":", ":">>))
         IN [i \in 1..Len(kept) |-> strip(kept[i])]
    ELSE <<>>

\* the parsed confidence is returned without the clamp
ParseConfidence_unclamped(text) ==
    IF IsFloat(text) THEN FloatTenths(text) ELSE 5

ParseConfidence(text) ==
    IF IsFloat(text) THEN Max(0, Min(10, FloatTenths(text))) ELSE 5

Synthesizer_forward(result) ==
    [final_answer |-> result.final_answer,
     citations    |-> ParseCitations(result.citations),
     confidence   |-> ParseConfidence(result.confidence),
     explanation  |-> result.explanation]

\* what the synthesis model may answer
AnswerNumber == Str(<<"$", "1", ",", "2", "0", "0">>)

AnswerText == Str(<<"n", "/", "a">>)

AnswerSet == [kind |-> "set", text |-> <<"{", "1", "}">>]

CitesTwo ==
    Str(<<"k", ":", ":", "c", "1", ",", " ", "x", ",", " ", "m", ":", ":", "c", "1">>)

CitesNone == Str(<<"n", "o", "n", "e">>)

SynthesizerOutputs ==
    { [final_answer |-> AnswerNumber, citations |-> CitesTwo,
       confidence |-> <<"0", ".", "7">>, explanation |-> "from rows and docs"],
      [final_answer |-> AnswerNumber, citations |-> CitesNone,
       confidence |-> <<"1", ".", "5">>, explanation |-> "from rows"],
      [final_answer |-> AnswerText, citations |-> CitesTwo,
       confidence |-> <<"a", "b", "c">>, explanation |-> "from docs"],
      [final_answer |-> AnswerText, citations |-> CitesNone,
       confidence |-> <<"-", "2">>, explanation |-> "unknown"],
      [final_answer |-> AnswerSet, citations |-> AnswerSet,
       confidence |-> <<"0", ".", "7">>, explanation |-> "a set"] }

(***************************************************************************)
(* SQLiteTool.execute_sql.  SQL text is a sequence of tokens.  What the    *)
(* database does with a statement is an input: it raises (fault is the     *)
(* message) or runs it, and a SELECT then fetches the given rows.          *)
(***************************************************************************)
upper(s) == [i \in 1..Len(s) |-> IF s[i] = "select" THEN "SELECT" ELSE s[i]]

startswith(s, prefix) ==
    Len(s) >= Len(prefix) /\ SubSeq(s, 1, Len(prefix)) = prefix

endswith(s, suffix) ==
    Len(s) >= Len(suffix) /\ SubSeq(s, Len(s) - Len(suffix) + 1, Len(s)) = suffix

execute_sql(sql, db) ==
    IF db.fault # None
    THEN [columns |-> <<>>, rows |-> <<>>, error |-> db.fault]
    ELSE IF startswith(upper(strip(sql)), <<"SELECT">>)
         THEN [columns |-> db.columns, rows |-> db.rows, error |-> None]
         ELSE [columns |-> <<>>, rows |-> <<>>, error |-> None]

\* whether execute_sql calls self.conn.commit()
commit(sql, db) ==
    db.fault = None /\ ~startswith(upper(strip(sql)), <<"SELECT">>)

\* sqlite3 raises with a message that is never empty
DbOutcomes ==
    { [fault |-> "no such table", columns |-> <<>>, rows |-> <<>>],
      [fault |-> None, columns |-> <<"total">>, rows |-> <<<<1200>>>>],
      [fault |-> None, columns |-> <<"total">>, rows |-> <<>>] }

\* the code-fence tokens: three backquotes, written with tildes here
FenceSql == "~~~sql"

Fence == "~~~"

\* the texts the query-generation model may answer (result.sql)
NL2SQLOutputs ==
    { <<FenceSql, "\n", "select", "total", "\n", Fence, "\n">>,
      <<"WITH", "t", "select", "total">>,
      <<"UPDATE", "t">> }

NL2SQL_forward(result) == strip(result)

(***************************************************************************)
(* RAGRetriever.retrieve(question, k=4): the ranked passages are an input  *)
(* of the run.  A passage's content is a sequence of words.                *)
(***************************************************************************)
ChunkKpi ==
    [id |-> <<"k", ":", ":", "c", "1">>, source |-> "kpi.md",
     content |-> <<"Formula:", "revenue", "in", "March", "1997">>, score |-> 8]

ChunkMarketing ==
    [id |-> <<"m", ":", ":", "c", "1">>, source |-> "marketing.md",
     content |-> <<"summer", "sale", "june", "1997", "to", "July", "97">>, score |-> 3]

RetrieveResults == { <<>>, <<ChunkKpi, ChunkMarketing>> }

(***************************************************************************)
(* AgentState and the state HybridAgent.run starts the graph with.         *)
(***************************************************************************)
FormatHints == {"number", "text"}

initial_state(format_hint) ==
    [id               |-> "q1",
     question         |-> "Total units sold in March?",
     format_hint      |-> format_hint,
     mode             |-> "",
     retrieved_chunks |-> <<>>,
     constraints      |-> <<>>,
     sql              |-> <<>>,
     sql_result       |-> EmptyDict,
     attempts         |-> 0,
     final_answer     |-> Str(<<>>),
     citations        |-> <<>>,
     confidence       |-> 0,
     explanation      |-> "",
     done             |-> FALSE,
     trace            |-> <<>>]

\* operator.add, the reducer of the trace channel
add(trace, entries) ==
    IF Len(trace) + Len(entries) <= MaxTrace THEN trace \o entries ELSE trace

\* the merge of a trace channel that has no reducer: the update overwrites
Merge_overwrite(st, update) ==
    [key \in DOMAIN st |-> IF key \in DOMAIN update THEN update[key] ELSE st[key]]

\* the graph's merge of a node's update into the state
Merge(st, update) ==
    [key \in DOMAIN st |->
        IF key \in DOMAIN update
        THEN IF key = "trace" THEN add(st.trace, update.trace) ELSE update[key]
        ELSE st[key]]

(***************************************************************************)
(* The conditional edges.                                                  *)
(***************************************************************************)
\* the test of route_after_planner in the place of the router's
route_after_router_sql(st) ==
    IF Get(st, "mode", "hybrid") \in {"sql", "hybrid"} THEN "retriever" ELSE "planner"

route_after_router(st) ==
    IF Get(st, "mode", "hybrid") \in {"rag", "hybrid"} THEN "retriever" ELSE "planner"

\* the test of route_after_router in the place of the planner's
route_after_planner_rag(st) ==
    IF Get(st, "mode", "hybrid") \in {"rag", "hybrid"} THEN "nl2sql" ELSE "synthesizer"

route_after_planner(st) ==
    IF Get(st, "mode", "hybrid") \in {"sql", "hybrid"} THEN "nl2sql" ELSE "synthesizer"

\* the repair branch is tested before done and the attempts cap
route_after_validation_repair_first(st) ==
    IF Truthy(Get(Get(st, "sql_result", EmptyDict), "error", None)) THEN "nl2sql"
    ELSE IF Get(st, "done", FALSE) THEN "END"
    ELSE IF Get(st, "attempts", 0) >= 2 THEN "END"
    ELSE "synthesizer"

\* the two repair branches are swapped
route_after_validation_swapped(st) ==
    IF Get(st, "done", FALSE) THEN "END"
    ELSE IF Get(st, "attempts", 0) >= 2 THEN "END"
    ELSE IF Truthy(Get(Get(st, "sql_result", EmptyDict), "error", None))
         THEN "synthesizer"
         ELSE "nl2sql"

\* a failed query sends the run back to the planner
route_after_validation_replans(st) ==
    IF Get(st, "done", FALSE) THEN "END"
    ELSE IF Get(st, "attempts", 0) >= 2 THEN "END"
    ELSE IF Truthy(Get(Get(st, "sql_result", EmptyDict), "error", None))
         THEN "planner"
         ELSE "synthesizer"

route_after_validation(st) ==
    IF Get(st, "done", FALSE) THEN "END"
    ELSE IF Get(st, "attempts", 0) >= 2 THEN "END"
    ELSE IF Truthy(Get(Get(st, "sql_result", EmptyDict), "error", None))
         THEN "nl2sql"
         ELSE "synthesizer"

(***************************************************************************)
(* The nodes.  Each returns the update the graph merges into the state.    *)
(***************************************************************************)
router_node(st, raw) ==
    LET mode == Router_forward(raw)
    IN [mode  |-> mode,
        trace |-> <<[node |-> "router", mode |-> mode]>>]

retriever_node(st, chunks) ==
    [retrieved_chunks |-> chunks,
     trace |-> <<[node |-> "retriever", num_chunks |-> Len(chunks),
                  chunk_ids |-> [i \in 1..Len(chunks) |-> chunks[i].id]]>>]

Months ==
    {"january", "february", "march", "april", "may", "june", "july", "august",
     "september", "october", "november", "december"}

\* re.IGNORECASE, for the words of the model's passages
LowerWord(w) ==
    CASE w = "March" -> "march" [] w = "July" -> "july" [] w = "JUNE" -> "june"
      [] OTHER -> w

\* the words \d{4}\b matches
FourDigits == {"1997", "1998"}

\* re.findall(date_pattern, content, re.IGNORECASE): the pattern has one
\* group, so the matches are the month names as they are written
RECURSIVE findall_dates(_)
findall_dates(content) ==
    IF Len(content) < 2 THEN <<>>
    ELSE IF LowerWord(content[1]) \in Months /\ content[2] \in FourDigits
         THEN <<content[1]>> \o findall_dates(SubSeq(content, 3, Len(content)))
         ELSE findall_dates(Tail(content))

ChunkParts(chunk) ==
    LET dates == findall_dates(chunk.content)
        words == {chunk.content[i] : i \in 1..Len(chunk.content)}
    IN (IF dates # <<>>
        THEN << <<"Relevant dates:">> \o join([i \in 1..Len(dates) |-> <<dates[i]>>], <<",">>) >>
        ELSE <<>>)
       \o
       (IF "Formula:" \in words \/ "SELECT" \in words
        THEN << <<"KPI formula found in", chunk.source>> >>
        ELSE <<>>)

RECURSIVE ConstraintsParts(_)
ConstraintsParts(chunks) ==
    IF chunks = <<>> THEN <<>>
    ELSE ChunkParts(Head(chunks)) \o ConstraintsParts(Tail(chunks))

\* the planner joins the fragments and has no fallback text
planner_node_no_fallback(st) ==
    LET chunks == Get(st, "retrieved_chunks", <<>>)
        constraints == join(ConstraintsParts(chunks), <<";">>)
    IN [constraints |-> constraints,
        trace |-> <<[node |-> "planner", constraints |-> constraints]>>]

\* the planner also reads the mode of the state
planner_node_reads_mode(st) ==
    LET chunks == Get(st, "retrieved_chunks", <<>>)
        constraints_parts == ConstraintsParts(chunks)
        constraints == IF constraints_parts # <<>> /\ Get(st, "mode", "hybrid") # "rag"
                       THEN join(constraints_parts, <<";">>)
                       ELSE <<"No specific constraints">>
    IN [constraints |-> constraints,
        trace |-> <<[node |-> "planner", constraints |-> constraints]>>]

planner_node(st) ==
    LET chunks == Get(st, "retrieved_chunks", <<>>)
        constraints_parts == ConstraintsParts(chunks)
        constraints == IF constraints_parts # <<>>
                       THEN join(constraints_parts, <<";">>)
                       ELSE <<"No specific constraints">>
    IN [constraints |-> constraints,
        trace |-> <<[node |-> "planner", constraints |-> constraints]>>]

\* the constraints nl2sql_node passes to the query-generation model
NL2SQLConstraints(st) ==
    LET constraints == Get(st, "constraints", <<>>)
        prev_error == Get(Get(st, "sql_result", EmptyDict), "error", "")
    IN IF Get(st, "attempts", 0) > 0
       THEN constraints \o <<"Previous SQL failed with:", prev_error, "Please fix the SQL.">>
       ELSE constraints

\* the clean-up of the generated SQL: the code fences are cut off
CleanSql(text) ==
    LET s0 == strip(text)
        s1 == IF startswith(s0, <<FenceSql>>) THEN Tail(s0) ELSE s0
        s2 == IF startswith(s1, <<Fence>>) THEN Tail(s1) ELSE s1
        s3 == IF endswith(s2, <<Fence>>) THEN SubSeq(s2, 1, Len(s2) - 1) ELSE s2
    IN strip(s3)

\* the extended constraints are stored in the state
nl2sql_node_stores_constraints(st, out) ==
    LET attempts == Get(st, "attempts", 0)
        sql == CleanSql(NL2SQL_forward(out))
    IN [sql   |-> sql,
        constraints |-> NL2SQLConstraints(st),
        trace |-> <<[node |-> "nl2sql", sql |-> sql, attempt |-> attempts + 1]>>]

nl2sql_node(st, out) ==
    LET attempts == Get(st, "attempts", 0)
        sql == CleanSql(NL2SQL_forward(out))
    IN [sql   |-> sql,
        trace |-> <<[node |-> "nl2sql", sql |-> sql, attempt |-> attempts + 1]>>]

\* only the failed executions are counted
executor_node_counts_failures(st, db) ==
    LET sql == Get(st, "sql", <<>>)
        attempts == Get(st, "attempts", 0)
        result == execute_sql(sql, db)
    IN [sql_result |-> result,
        attempts   |-> IF result.error = None THEN attempts ELSE attempts + 1,
        trace |-> <<[node |-> "executor", success |-> (result.error = None),
                     num_rows |-> Len(result.rows), error |-> result.error]>>]

executor_node(st, db) ==
    LET sql == Get(st, "sql", <<>>)
        attempts == Get(st, "attempts", 0)
        result == execute_sql(sql, db)
    IN [sql_result |-> result,
        attempts   |-> attempts + 1,
        trace |-> <<[node |-> "executor", success |-> (result.error = None),
                     num_rows |-> Len(result.rows), error |-> result.error]>>]

synthesizer_node(st, out) ==
    LET result == Synthesizer_forward(out)
    IN [final_answer |-> result.final_answer,
        citations    |-> result.citations,
        confidence   |-> result.confidence,
        explanation  |-> result.explanation,
        trace |-> <<[node |-> "synthesizer", confidence |-> result.confidence,
                     num_citations |-> Len(result.citations)]>>]

\* the checks stop at the first issue
Issues_short_circuit(st) ==
    LET final_answer == Get(st, "final_answer", Str(<<>>))
        citations == Get(st, "citations", <<>>)
        sql_result == Get(st, "sql_result", EmptyDict)
        format_hint == Get(st, "format_hint", "text")
        mode == Get(st, "mode", "hybrid")
    IN IF format_hint = "number"
          /\ ~IsFloat(remove(remove(final_answer.text, "$"), ","))
       THEN << <<"Answer should be a number">> >>
       ELSE IF final_answer.kind # "str"
       THEN << <<"Answer is not JSON serializable">> >>
       ELSE IF mode \in {"rag", "hybrid"} /\ citations = <<>>
       THEN << <<"Missing citations">> >>
       ELSE IF mode \in {"sql", "hybrid"}
       THEN IF Truthy(Get(sql_result, "error", None))
            THEN << <<"SQL error:", sql_result.error>> >>
            ELSE IF Get(sql_result, "rows", <<>>) = <<>>
                 THEN << <<"SQL returned no rows">> >>
                 ELSE <<>>
       ELSE <<>>

\* the error check and the row check are made independently of each other
Issues_independent(st) ==
    LET final_answer == Get(st, "final_answer", Str(<<>>))
        citations == Get(st, "citations", <<>>)
        sql_result == Get(st, "sql_result", EmptyDict)
        format_hint == Get(st, "format_hint", "text")
        mode == Get(st, "mode", "hybrid")
    IN (IF format_hint = "number"
           /\ ~IsFloat(remove(remove(final_answer.text, "$"), ","))
        THEN << <<"Answer should be a number">> >> ELSE <<>>)
       \o
       (IF final_answer.kind # "str"
        THEN << <<"Answer is not JSON serializable">> >> ELSE <<>>)
       \o
       (IF mode \in {"rag", "hybrid"} /\ citations = <<>>
        THEN << <<"Missing citations">> >> ELSE <<>>)
       \o
       (IF mode \in {"sql", "hybrid"} /\ Truthy(Get(sql_result, "error", None))
        THEN << <<"SQL error:", sql_result.error>> >> ELSE <<>>)
       \o
       (IF mode \in {"sql", "hybrid"} /\ Get(sql_result, "rows", <<>>) = <<>>
        THEN << <<"SQL returned no rows">> >> ELSE <<>>)

\* the issues validate_and_repair_node finds, each a sequence of words
Issues(st) ==
    LET final_answer == Get(st, "final_answer", Str(<<>>))
        citations == Get(st, "citations", <<>>)
        sql_result == Get(st, "sql_result", EmptyDict)
        format_hint == Get(st, "format_hint", "text")
        mode == Get(st, "mode", "hybrid")
    IN (IF format_hint = "number"
           /\ ~IsFloat(remove(remove(final_answer.text, "$"), ","))
        THEN << <<"Answer should be a number">> >> ELSE <<>>)
       \o
       (IF final_answer.kind # "str"
        THEN << <<"Answer is not JSON serializable">> >> ELSE <<>>)
       \o
       (IF mode \in {"rag", "hybrid"} /\ citations = <<>>
        THEN << <<"Missing citations">> >> ELSE <<>>)
       \o
       (IF mode \in {"sql", "hybrid"}
        THEN IF Truthy(Get(sql_result, "error", None))
             THEN << <<"SQL error:", sql_result.error>> >>
             ELSE IF Get(sql_result, "rows", <<>>) = <<>>
                  THEN << <<"SQL returned no rows">> >>
                  ELSE <<>>
        ELSE <<>>)

\* the attempts cap is off by one
validate_and_repair_node_cap_one(st) ==
    LET attempts == Get(st, "attempts", 0)
        issues == Issues(st)
        done == (Len(issues) = 0) \/ (attempts >= 1)
    IN [done  |-> done,
        trace |-> <<[node |-> "validate_and_repair", issues |-> issues,
                     done |-> done, attempts |-> attempts]>>]

\* the attempts cap is missing
validate_and_repair_node_no_cap(st) ==
    LET attempts == Get(st, "attempts", 0)
        issues == Issues(st)
        done == (Len(issues) = 0)
    IN [done  |-> done,
        trace |-> <<[node |-> "validate_and_repair", issues |-> issues,
                     done |-> done, attempts |-> attempts]>>]

\* a validation that finds issues counts as an attempt
validate_and_repair_node_counts_attempt(st) ==
    LET attempts == Get(st, "attempts", 0)
        issues == Issues(st)
        done == (Len(issues) = 0) \/ (attempts >= 2)
    IN [done  |-> done,
        attempts |-> IF done THEN attempts ELSE attempts + 1,
        trace |-> <<[node |-> "validate_and_repair", issues |-> issues,
                     done |-> done, attempts |-> attempts]>>]

validate_and_repair_node(st) ==
    LET attempts == Get(st, "attempts", 0)
        issues == Issues(st)
        done == (Len(issues) = 0) \/ (attempts >= 2)
    IN [done  |-> done,
        trace |-> <<[node |-> "validate_and_repair", issues |-> issues,
                     done |-> done, attempts |-> attempts]>>]

(***************************************************************************)
(* The compiled graph: one action per node, followed by its edge.          *)
(***************************************************************************)
Nodes ==
    {"router", "retriever", "planner", "nl2sql", "executor", "synthesizer",
     "validate_and_repair"}

\* the record of a question that has no output record yet
NoOutput == [id |-> None]

\* run's return value, built from the final state
run_result(final_state) ==
    [id           |-> final_state.id,
     question     |-> final_state.question,
     final_answer |-> final_state.final_answer,
     citations    |-> final_state.citations,
     confidence   |-> final_state.confidence,
     explanation  |-> final_state.explanation,
     trace        |-> final_state.trace]

\* the text "Error processing question"
ErrorAnswer ==
    <<"E", "r", "r", "o", "r", " ", "p", "r", "o", "c", "e", "s", "s", "i",
      "n", "g", " ", "q", "u", "e", "s", "t", "i", "o", "n">>

\* the record process_batch appends when agent.run raises
error_result(question_id, question, e) ==
    [id           |-> question_id,
     question     |-> question,
     final_answer |-> Str(ErrorAnswer),
     citations    |-> <<>>,
     confidence   |-> 0,
     explanation  |-> e,
     trace        |-> <<>>]

\* the nodes that call a collaborator which may raise (the language model
\* behind the DSPy modules, the vectorizer); execute_sql catches its own
RaisingNodes == {"router", "retriever", "nl2sql", "synthesizer"}

\* str(e) of the exception a collaborator raises
Exceptions == {"Connection refused"}

\* no call of the citation parsing is looked at
NoCiting == [citations_str |-> Str(<<>>), called |-> FALSE, citations |-> <<>>]

\* process_batch is not running
NoBatch == [questions |-> <<>>, idx |-> 0]

\* no retriever has been built
NoRag == [docs_dir |-> None]

Invoke(node, answer, update) ==
    /\ pc = node
    /\ output = NoOutput
    /\ UNCHANGED <<output, unitVars>>
    /\ state' = Merge(state, update)
    /\ calls' = [calls EXCEPT ![node] = Min(@ + 1, MaxCalls)]
    /\ reply' = [from |-> node, value |-> answer]

Router ==
    /\ \E raw \in RouterOutputs : Invoke("router", raw, router_node(state, raw))
    /\ pc' = route_after_router(state')
    /\ UNCHANGED commits

Retriever ==
    /\ \E chunks \in RetrieveResults :
          Invoke("retriever", chunks, retriever_node(state, chunks))
    /\ pc' = "planner"
    /\ UNCHANGED commits

Planner ==
    /\ Invoke("planner", None, planner_node(state))
    /\ pc' = route_after_planner(state')
    /\ UNCHANGED commits

Nl2sql ==
    /\ \E out \in NL2SQLOutputs :
          Invoke("nl2sql", [constraints |-> NL2SQLConstraints(state), sql |-> out],
                 nl2sql_node(state, out))
    /\ pc' = "executor"
    /\ UNCHANGED commits

Executor ==
    /\ \E db \in DbOutcomes :
          /\ Invoke("executor", db, executor_node(state, db))
          /\ commits' = commits + (IF commit(Get(state, "sql", <<>>), db) THEN 1 ELSE 0)
    /\ pc' = "synthesizer"

Synthesizer ==
    /\ \E out \in SynthesizerOutputs :
          Invoke("synthesizer", out, synthesizer_node(state, out))
    /\ pc' = "validate_and_repair"
    /\ UNCHANGED commits

ValidateAndRepair ==
    /\ Invoke("validate_and_repair", None, validate_and_repair_node(state))
    /\ pc' = route_after_validation(state')
    /\ UNCHANGED commits

\* graph.invoke returned: run builds the output record
Return ==
    /\ pc = "END"
    /\ output = NoOutput
    /\ output' = run_result(state)
    /\ UNCHANGED <<state, pc, calls, reply, commits, unitVars>>

\* a collaborator raises inside the node at pc: the exception leaves
\* graph.invoke and run, and process_batch records the question as failed
Raise ==
    /\ pc \in RaisingNodes
    /\ output = NoOutput
    /\ \E e \in Exceptions :
          output' = error_result(state.id, state.question, e)
    /\ UNCHANGED <<state, pc, calls, reply, commits, unitVars>>

Init ==
    /\ \E format_hint \in FormatHints : state = initial_state(format_hint)
    /\ pc = "router"
    /\ calls = [n \in Nodes |-> 0]
    /\ reply = [from |-> "run", value |-> None]
    /\ output = NoOutput
    /\ commits = 0
    /\ citing = NoCiting
    /\ batch = NoBatch
    /\ rag = NoRag

\* the steps of graph.invoke
Graph ==
    \/ Router
    \/ Retriever
    \/ Planner
    \/ Nl2sql
    \/ Executor
    \/ Synthesizer
    \/ ValidateAndRepair

Next ==
    \/ Graph
    \/ Return
    \/ Raise

Spec == Init /\ [][Next]_vars

\* graph.invoke runs the next node as long as there is one: Next is enabled
\* exactly when pc is not END, and every step of Next moves pc on
NodeRuns == pc # "END" /\ pc' \in (Nodes \cup {"END"}) \ {pc}

\* the runs in which no collaborator raises and the graph keeps stepping
FairSpec == Init /\ [][Graph \/ Return]_vars /\ WF_pc(NodeRuns)

(***************************************************************************)
(* The citation parsing of Synthesizer.forward on its own: result.citations *)
(* is any text of at most MaxCitationLen characters over CitationAlphabet,  *)
(* one of the citation texts of the runs, or a value that is no str.        *)
(***************************************************************************)
MaxCitationLen == 7

CitationAlphabet == {"a", ":", ",", " "}

NoneValue == [kind |-> "NoneType", text |-> <<"N", "o", "n", "e">>]

CitationOutputs ==
    { Str(text) : text \in UNION { [1..n -> CitationAlphabet] : n \in 0..MaxCitationLen } }
    \cup { CitesTwo, CitesNone, AnswerSet, NoneValue }

CitationInit ==
    /\ state = initial_state("text")
    /\ pc = "synthesizer"
    /\ calls = [n \in Nodes |-> 0]
    /\ reply = [from |-> "run", value |-> None]
    /\ output = NoOutput
    /\ commits = 0
    /\ \E citations_str \in CitationOutputs :
          citing = [citations_str |-> citations_str, called |-> FALSE,
                    citations |-> <<>>]
    /\ batch = NoBatch
    /\ rag = NoRag

\* lines 144-150 of Synthesizer.forward
ParseCitationsCall ==
    /\ ~citing.called
    /\ citing' = [citing EXCEPT !.called = TRUE,
                                !.citations = ParseCitations(citing.citations_str)]
    /\ UNCHANGED <<runVars, batch, rag>>

CitationSpec == CitationInit /\ [][ParseCitationsCall]_vars

(***************************************************************************)
(* process_batch: the questions of the input file are processed in a loop, *)
(* agent.run returns a record or raises, and the results are then written  *)
(* to the output file, one line each.  A question is a dict, with or       *)
(* without the keys id and format_hint; ids are texts.                     *)
(***************************************************************************)
MaxQuestions == 3

QuestionItems ==
    { [id |-> <<"a">>, question |-> "Top product?", format_hint |-> "number"],
      [question |-> "Return policy?"] }

\* f"q{idx}", for idx below 10
DefaultId(idx) == <<"q", CHOOSE c \in Digits : DigitVal(c) = idx>>

\* what agent.run may return for a question: the record of a final state
RunResults(question_id, question, format_hint) ==
    { run_result([initial_state(format_hint) EXCEPT
                     !.id = question_id, !.question = question,
                     !.final_answer = final_answer, !.confidence = confidence,
                     !.done = TRUE])
        : final_answer \in {AnswerNumber}, confidence \in {7, 10} }

\* json.dumps(result): the line that holds the record
dumps(result) == [json |-> result]

BatchInit ==
    /\ state = initial_state("text")
    /\ pc = "router"
    /\ calls = [n \in Nodes |-> 0]
    /\ reply = [from |-> "run", value |-> None]
    /\ output = NoOutput
    /\ commits = 0
    /\ citing = NoCiting
    /\ rag = NoRag
    /\ \E questions \in UNION { [1..n -> QuestionItems] : n \in 0..MaxQuestions } :
          batch = [questions |-> questions, idx |-> 1, results |-> <<>>,
                   outcomes |-> <<>>, written |-> <<>>]

question_id(idx) == Get(batch.questions[idx], "id", DefaultId(idx))

\* the loop body when agent.run returns
RunReturns ==
    /\ batch.idx \in 1..Len(batch.questions)
    /\ LET item == batch.questions[batch.idx]
           question == Get(item, "question", "")
           format_hint == Get(item, "format_hint", "text")
       IN \E result \in RunResults(question_id(batch.idx), question, format_hint) :
             batch' = [batch EXCEPT
                          !.results = Append(@, result),
                          !.outcomes = Append(@, [raised |-> FALSE, value |-> result]),
                          !.idx = @ + 1]
    /\ UNCHANGED <<runVars, citing, rag>>

\* the exception is swallowed and the question leaves no record
RunRaises_skips ==
    /\ batch.idx \in 1..Len(batch.questions)
    /\ \E e \in Exceptions :
          batch' = [batch EXCEPT
                       !.outcomes = Append(@, [raised |-> TRUE, value |-> e]),
                       !.idx = @ + 1]
    /\ UNCHANGED <<runVars, citing, rag>>

\* the loop body when agent.run raises
RunRaises ==
    /\ batch.idx \in 1..Len(batch.questions)
    /\ LET item == batch.questions[batch.idx]
           question == Get(item, "question", "")
       IN \E e \in Exceptions :
             batch' = [batch EXCEPT
                          !.results = Append(@, error_result(question_id(batch.idx),
                                                             question, e)),
                          !.outcomes = Append(@, [raised |-> TRUE, value |-> e]),
                          !.idx = @ + 1]
    /\ UNCHANGED <<runVars, citing, rag>>

\* the writing loop, after the processing loop
WriteResult ==
    /\ batch.idx = Len(batch.questions) + 1
    /\ Len(batch.written) < Len(batch.results)
    /\ batch' = [batch EXCEPT
                    !.written = Append(@, dumps(batch.results[Len(batch.written) + 1]))]
    /\ UNCHANGED <<runVars, citing, rag>>

BatchNext ==
    \/ RunReturns
    \/ RunRaises
    \/ WriteResult

BatchSpec == BatchInit /\ [][BatchNext]_vars

(***************************************************************************)
(* RAGRetriever.  A file name is a sequence of tokens (name, extension), a *)
(* document text a sequence of characters, a passage id the tokens of      *)
(* f"{base_name}::chunk{chunk_counter}".  Which of the four files exist    *)
(* and what they hold is an input; so are, for a call of retrieve, k and   *)
(* the cosine similarity of the question to each chunk (in tenths).        *)
(***************************************************************************)
MaxK == 4

MinParagraphLen == 20

markdown_files ==
    << <<"marketing_calendar", ".md">>, <<"kpi_definitions", ".md">>,
       <<"catalog", ".md">>, <<"product_policy", ".md">> >>

Rep(c, n) == [i \in 1..n |-> c]

\* a short paragraph between blanks, then a paragraph of 20 characters
DocOne ==
    <<" ">> \o Rep("t", 19) \o <<" ", "\n", "\n">> \o Rep("a", 20)

\* two kept paragraphs, the second with a line break, and a heading between
DocTwo ==
    Rep("a", 21) \o <<"\n", "\n", "\n", "#", " ", "T", "\n", "\n">>
    \o Rep("b", 10) \o <<"\n">> \o Rep("b", 10) \o <<"\n">>

\* a file of the documents directory: missing, or there with its text
Files ==
    { [exists |-> FALSE, content |-> <<>>],
      [exists |-> TRUE, content |-> DocOne],
      [exists |-> TRUE, content |-> DocTwo] }

Scores == {0, 3, 7}

\* re.split(r'\n\n+', content)
RECURSIVE re_split(_)
re_split(content) ==
    LET breaks == {i \in 1..(Len(content) - 1) :
                      content[i] = "\n" /\ content[i + 1] = "\n"}
    IN IF breaks = {} THEN <<content>>
       ELSE LET i == CHOOSE b \in breaks : \A h \in breaks : b <= h
                j == CHOOSE e \in i..Len(content) :
                         /\ \A h \in i..e : content[h] = "\n"
                         /\ e = Len(content) \/ content[e + 1] # "\n"
            IN <<SubSeq(content, 1, i - 1)>>
               \o re_split(SubSeq(content, j + 1, Len(content)))

\* the counter counts every paragraph, the skipped ones too
split_into_chunks_counts_skipped(content, source) ==
    LET paragraphs == re_split(content)
        base_name == remove(source, ".md")
        kept == {i \in 1..Len(paragraphs) :
                    Len(strip(paragraphs[i])) >= MinParagraphLen}
        nth(n) == CHOOSE i \in kept : Cardinality({h \in kept : h <= i}) = n
    IN [n \in 1..Cardinality(kept) |->
           [id |-> base_name \o <<"::", "chunk", nth(n)>>, source |-> source,
            content |-> strip(paragraphs[nth(n)]), score |-> 0]]

split_into_chunks(content, source) ==
    LET paragraphs == re_split(content)
        base_name == remove(source, ".md")
        kept == SelectSeq([i \in 1..Len(paragraphs) |-> strip(paragraphs[i])],
                          LAMBDA para : ~(Len(para) < MinParagraphLen))
    IN [chunk_counter \in 1..Len(kept) |->
           [id |-> base_name \o <<"::", "chunk", chunk_counter>>,
            source |-> source, content |-> kept[chunk_counter], score |-> 0]]

RECURSIVE load_documents(_, _)
load_documents(docs, n) ==
    IF n = 0 THEN <<>>
    ELSE load_documents(docs, n - 1)
         \o (IF docs[n].exists
             THEN split_into_chunks(docs[n].content, markdown_files[n])
             ELSE <<>>)

\* np.argsort(similarities): the indices in ascending order of similarity,
\* equal similarities in index order
argsort(similarities) ==
    LET rank(i) == Cardinality({h \in 1..Len(similarities) :
                       \/ similarities[h] < similarities[i]
                       \/ similarities[h] = similarities[i] /\ h < i}) + 1
    IN [r \in 1..Len(similarities) |->
           CHOOSE i \in 1..Len(similarities) : rank(i) = r]

\* a[-k:] of Python, for k >= 0
suffix(a, k) ==
    IF k = 0 \/ k >= Len(a) THEN a ELSE SubSeq(a, Len(a) - k + 1, Len(a))

reversed(a) == [i \in 1..Len(a) |-> a[Len(a) + 1 - i]]

retrieve(chunks, similarities, k) ==
    IF chunks = <<>> THEN <<>>
    ELSE LET top_k_indices == reversed(suffix(argsort(similarities), k))
         IN [i \in 1..Len(top_k_indices) |->
                [chunks[top_k_indices[i]] EXCEPT
                    !.score = similarities[top_k_indices[i]]]]

\* RAGRetriever(docs_dir) has loaded and indexed the documents
RetrieverInit ==
    /\ state = initial_state("text")
    /\ pc = "retriever"
    /\ calls = [n \in Nodes |-> 0]
    /\ reply = [from |-> "run", value |-> None]
    /\ output = NoOutput
    /\ commits = 0
    /\ citing = NoCiting
    /\ batch = NoBatch
    /\ \E docs \in [1..Len(markdown_files) -> Files] :
          rag = [docs_dir |-> docs,
                 chunks |-> load_documents(docs, Len(markdown_files)),
                 called |-> FALSE, k |-> 0, similarities |-> <<>>,
                 results |-> <<>>]

\* a call retrieve(question, k); the index is not changed by it, so one
\* call per retriever shows what every call does
Retrieve ==
    /\ ~rag.called
    /\ \E k \in 0..MaxK, similarities \in [1..Len(rag.chunks) -> Scores] :
          rag' = [rag EXCEPT !.called = TRUE, !.k = k,
                             !.similarities = similarities,
                             !.results = retrieve(rag.chunks, similarities, k)]
    /\ UNCHANGED <<runVars, citing, batch>>

RetrieverSpec == RetrieverInit /\ [][Retrieve]_vars

(***************************************************************************)
(* C1.  Every run reaches END, whatever the mode, the format hint and the  *)
(* answers of the executor and of the synthesis model: there is no         *)
(* infinite cycle through the nodes.                                       *)
(***************************************************************************)
C1_RunReachesEnd == <>(pc = "END")

(***************************************************************************)
(* C2.  In every state of a run, and so when it ends, attempts is 0, 1 or  *)
(* 2.                                                                      *)
(***************************************************************************)
C2_AttemptsInRange == state.attempts \in {0, 1, 2}

C2_Witness == pc = "END" /\ state.attempts = 2 /\ calls["executor"] = 2

(***************************************************************************)
(* C3.  In one run the nl2sql node is entered at most 3 times.             *)
(***************************************************************************)
C3_Nl2sqlAtMostThrice == calls["nl2sql"] <= 3

C3_Witness == pc = "END" /\ calls["nl2sql"] = 2

(***************************************************************************)
(* C4.  In mode rag the nl2sql and executor nodes are never entered, also  *)
(* not after a failed validation; sql stays empty and attempts stays 0.    *)
(***************************************************************************)
C4_RagNeverQueries ==
    state.mode = "rag" =>
        /\ pc \notin {"nl2sql", "executor"}
        /\ calls["nl2sql"] = 0 /\ calls["executor"] = 0
        /\ state.sql = <<>>
        /\ state.attempts = 0

C4_Witness ==
    /\ state.mode = "rag"
    /\ calls["validate_and_repair"] >= 2
    /\ ~state.done
    /\ pc = "synthesizer"

(***************************************************************************)
(* C5.  In mode sql the retriever node is never entered and                *)
(* retrieved_chunks is the empty list in every state.                      *)
(***************************************************************************)
C5_SqlNeverRetrieves ==
    state.mode = "sql" =>
        /\ pc # "retriever"
        /\ calls["retriever"] = 0
        /\ state.retrieved_chunks = <<>>

C5_Witness == state.mode = "sql" /\ pc = "END" /\ calls["executor"] = 2

(***************************************************************************)
(* C6.  After the router step the stored mode is rag, sql or hybrid: the   *)
(* classifier's text, lower-cased and trimmed, is kept when it is one of   *)
(* the three and is replaced by hybrid when it is not, so every routing    *)
(* decision reads a valid mode.                                            *)
(***************************************************************************)
C6_ModeValidAfterRouting ==
    /\ pc # "router" => state.mode \in Modes
    /\ reply.from = "router" =>
          LET text == strip(lower(reply.value))
          IN IF \E m \in Modes : Chars(m) = text
             THEN Chars(state.mode) = text
             ELSE state.mode = "hybrid"

C6_Witness ==
    /\ reply.from = "router"
    /\ reply.value = <<"s", "q", "l", ".">>
    /\ state.mode = "hybrid"
    /\ pc = "retriever"

(***************************************************************************)
(* C7.  When the first query execution of a run returned an error, the     *)
(* step out of the validation that follows leads to nl2sql, not to         *)
(* synthesizer and not to END, and attempts is 1 there.                    *)
(***************************************************************************)
C7_FirstErrorRepairs ==
    [][ ( /\ pc = "validate_and_repair"
          /\ calls["executor"] = 1
          /\ state.sql_result.error # None )
        => (pc' = "nl2sql" /\ state'.attempts = 1) ]_vars

C7_Witness ==
    /\ pc = "nl2sql"
    /\ calls["validate_and_repair"] = 1
    /\ state.sql_result.error = "no such table"
    /\ state.attempts = 1

(***************************************************************************)
(* C8.  The step out of every validation leads to END when done is true,   *)
(* otherwise to nl2sql when the latest query result carries an error, and  *)
(* otherwise to synthesizer.                                               *)
(***************************************************************************)
C8_ValidationSuccessor ==
    [][ pc = "validate_and_repair" =>
          pc' = IF state'.done THEN "END"
                ELSE IF "error" \in DOMAIN state'.sql_result
                        /\ state'.sql_result.error # None
                     THEN "nl2sql"
                     ELSE "synthesizer" ]_vars

C8_Witness ==
    /\ pc = "synthesizer"
    /\ calls["validate_and_repair"] >= 1
    /\ calls["executor"] = 1
    /\ ~state.done

(***************************************************************************)
(* C9.  Every validation sets done to (the issue list is empty) or         *)
(* (attempts >= 2), both read from the state the validation runs on.       *)
(***************************************************************************)
C9_DoneRule ==
    [][ pc = "validate_and_repair" =>
          state'.done = ((Issues(state) = <<>>) \/ (state.attempts >= 2)) ]_vars

C9_Witness ==
    /\ pc = "END"
    /\ state.done
    /\ Issues(state) # <<>>
    /\ state.attempts = 2

(***************************************************************************)
(* C10.  attempts grows by exactly one in every executor step, whether the *)
(* query succeeded or failed, is changed by no other node and never        *)
(* decreases: it is the number of executor invocations so far.             *)
(***************************************************************************)
C10_AttemptsCountsExecutions ==
    /\ state.attempts = calls["executor"]
    /\ [][ /\ state'.attempts =
                state.attempts + (IF pc = "executor" THEN 1 ELSE 0)
           /\ state'.attempts = calls'["executor"] ]_vars

C10_Witness ==
    /\ state.attempts = 2
    /\ calls["executor"] = 2
    /\ state.mode = "sql"
    /\ state.trace[4].node = "executor" /\ ~state.trace[4].success
    /\ state.sql_result.error = None /\ state.sql_result.rows # <<>>

(***************************************************************************)
(* C11.  The trace is append-only.  Every node invocation appends exactly  *)
(* one record, tagged with the name of the node, to the end of the trace;  *)
(* no step rewrites, removes or reorders an earlier record; the length of  *)
(* the trace is the number of node invocations so far.  The model keeps    *)
(* the first MaxTrace records of a run, so the statement is about the      *)
(* traces shorter than MaxTrace.                                           *)
(***************************************************************************)
TotalCalls ==
    calls["router"] + calls["retriever"] + calls["planner"] + calls["nl2sql"]
    + calls["executor"] + calls["synthesizer"] + calls["validate_and_repair"]

C11_TraceAppendOnly ==
    /\ [](/\ Len(state.trace) < MaxTrace => Len(state.trace) = TotalCalls)
    /\ [][ /\ Len(state'.trace) >= Len(state.trace)
           /\ SubSeq(state'.trace, 1, Len(state.trace)) = state.trace
           /\ (calls' # calls /\ Len(state.trace) < MaxTrace) =>
                 /\ Len(state'.trace) = Len(state.trace) + 1
                 /\ state'.trace[Len(state'.trace)].node = pc
           /\ calls' = calls => state'.trace = state.trace ]_vars

C11_Witness ==
    /\ pc = "END"
    /\ Len(state.trace) = 10
    /\ state.trace[7].node = "nl2sql"
    /\ state.trace[10].node = "validate_and_repair"
    /\ TotalCalls = 10

(***************************************************************************)
(* C12.  The confidence of the state and of every output record, of a      *)
(* completed run and of a failed one, lies in [0, 1] (0..10 tenths).  A    *)
(* numeric confidence text of the synthesis model is clamped to [0, 1], so *)
(* 1.5 becomes 1.0, and a text that is no number becomes 0.5.              *)
(***************************************************************************)
C12_ConfidenceInRange ==
    /\ state.confidence \in 0..10
    /\ output # NoOutput => output.confidence \in 0..10
    /\ reply.from = "synthesizer" =>
          LET text == reply.value.confidence
              value == FloatTenths(text)
          IN /\ text = <<"1", ".", "5">> => state.confidence = 10
             /\ text = <<"a", "b", "c">> => state.confidence = 5
             /\ IsFloat(text) /\ value > 10 => state.confidence = 10
             /\ IsFloat(text) /\ value < 0 => state.confidence = 0
             /\ IsFloat(text) /\ value \in 0..10 => state.confidence = value
             /\ ~IsFloat(text) => state.confidence = 5

C12_Witness ==
    /\ pc = "END"
    /\ output # NoOutput
    /\ output.confidence = 10
    /\ \E i \in 1..Len(output.trace) : output.trace[i].node = "synthesizer"

(***************************************************************************)
(* C13.  Citation parsing.  The citation text is split on commas and       *)
(* exactly the tokens that contain '::' are kept, trimmed and in their     *)
(* original order; a citation output that is no string, or that holds no   *)
(* such token, gives the empty list.  The tokens are described here by the *)
(* positions of the commas: a token runs from one comma (or the start of   *)
(* the text) to the next comma (or the end of the text).                   *)
(***************************************************************************)
TokenStarts(text) == {0} \cup {i \in 1..Len(text) : text[i] = ","}

TokenEnd(text, a) ==
    IF \E i \in (a + 1)..Len(text) : text[i] = ","
    THEN CHOOSE i \in (a + 1)..Len(text) :
             text[i] = "," /\ \A h \in (a + 1)..(i - 1) : text[h] # ","
    ELSE Len(text) + 1

HasDelimiter(text, a) ==
    \E i \in (a + 1)..(TokenEnd(text, a) - 2) : text[i] = ":" /\ text[i + 1] = ":"

Trimmed(text, a) ==
    LET inked == {i \in (a + 1)..(TokenEnd(text, a) - 1) : text[i] \notin Whitespace}
        first == CHOOSE i \in inked : \A h \in inked : i <= h
        last == CHOOSE i \in inked : \A h \in inked : h <= i
    IN SubSeq(text, first, last)

C13_CitationParsing ==
    citing.called =>
        IF citing.citations_str.kind = "str"
        THEN LET text == citing.citations_str.text
                 kept == {a \in TokenStarts(text) : HasDelimiter(text, a)}
             IN /\ Len(citing.citations) = Cardinality(kept)
                /\ \A a \in kept :
                      citing.citations[Cardinality({b \in kept : b <= a})]
                          = Trimmed(text, a)
        ELSE citing.citations = <<>>

C13_Witness ==
    /\ citing.called
    /\ citing.citations_str = CitesTwo
    /\ citing.citations = << <<"k", ":", ":", "c", "1">>, <<"m", ":", ":", "c", "1">> >>

(***************************************************************************)
(* C14.  In every state of a run and in every output record, each entry of *)
(* citations is the id of a passage in retrieved_chunks of that run; with  *)
(* no retrieved passage, as in sql mode, citations is empty.               *)
(***************************************************************************)
RetrievedIds == {state.retrieved_chunks[j].id : j \in 1..Len(state.retrieved_chunks)}

C14_CitationsRetrieved ==
    /\ \A i \in 1..Len(state.citations) : state.citations[i] \in RetrievedIds
    /\ output # NoOutput =>
          \A i \in 1..Len(output.citations) : output.citations[i] \in RetrievedIds

(***************************************************************************)
(* C15.  For mode sql or hybrid the validation reports a query error and   *)
(* an empty row set as two issues that do not exclude each other: when the *)
(* most recent query result has a non-null error and zero rows, the issue  *)
(* list holds the SQL-error issue and the no-rows issue.                   *)
(* The issue list of the last validation is in its trace record.           *)
(***************************************************************************)
Validated ==
    /\ reply.from = "validate_and_repair"
    /\ Len(state.trace) < MaxTrace
    /\ state.mode \in {"sql", "hybrid"}

LastIssues ==
    LET issues == state.trace[Len(state.trace)].issues
    IN {issues[i] : i \in 1..Len(issues)}

SqlErrorReported == \E issue \in LastIssues : issue[1] = "SQL error:"

NoRowsReported == <<"SQL returned no rows">> \in LastIssues

C15_ErrorAndNoRowsBothReported ==
    (Validated /\ state.sql_result.error # None /\ state.sql_result.rows = <<>>)
        => (SqlErrorReported /\ NoRowsReported)

(***************************************************************************)
(* C15, amended.  The two issues are alternatives and the error comes      *)
(* first: with a non-null error the issue list holds the SQL-error issue,  *)
(* with the message of the error, and not the no-rows issue; the no-rows   *)
(* issue is reported exactly when there is no error and no row.            *)
(***************************************************************************)
C15_ErrorElseNoRows ==
    Validated =>
        /\ state.sql_result.error # None =>
              /\ <<"SQL error:", state.sql_result.error>> \in LastIssues
              /\ ~NoRowsReported
        /\ state.sql_result.error = None => ~SqlErrorReported
        /\ NoRowsReported <=>
              (state.sql_result.error = None /\ state.sql_result.rows = <<>>)

C15_Witness ==
    /\ Validated
    /\ state.sql_result.error = "no such table"
    /\ state.sql_result.rows = <<>>
    /\ LastIssues = { <<"SQL error:", "no such table">> }

(***************************************************************************)
(* C16.  The sql scenario from end to end: for a question with format hint *)
(* 'number' that is classified sql and whose query execution returns one   *)
(* row without error, the output record has no citations, a final answer   *)
(* that parses as a number, a confidence in [0, 1] and a trace with        *)
(* exactly one executor record, whose error is null.                       *)
(***************************************************************************)
ExecutorEntries(trace) == {i \in 1..Len(trace) : trace[i].node = "executor"}

SqlScenario ==
    /\ output # NoOutput
    /\ pc = "END"
    /\ state.format_hint = "number"
    /\ state.mode = "sql"
    /\ \E i \in ExecutorEntries(output.trace) :
          /\ \A h \in ExecutorEntries(output.trace) : i <= h
          /\ output.trace[i].success
          /\ output.trace[i].num_rows = 1

NumericAnswer(final_answer) ==
    /\ final_answer.kind = "str"
    /\ IsFloat(remove(remove(final_answer.text, "$"), ","))

C16_SqlScenarioOutput ==
    SqlScenario =>
        /\ output.citations = <<>>
        /\ NumericAnswer(output.final_answer)
        /\ output.confidence \in 0..10
        /\ Cardinality(ExecutorEntries(output.trace)) = 1
        /\ \A i \in ExecutorEntries(output.trace) : output.trace[i].error = None

(***************************************************************************)
(* C17.  The batch driver processes the questions one at a time, in input  *)
(* order.  A failure raised while a question is processed is caught and    *)
(* replaced by a degraded record (confidence 0.0, no citations, the error  *)
(* text as explanation) and the remaining questions are still processed:   *)
(* the output holds exactly one record per input question, in input order. *)
(***************************************************************************)
BatchComplete ==
    /\ batch.idx = Len(batch.questions) + 1
    /\ Len(batch.written) = Len(batch.results)

IsReadQuery(sql) == sql # <<>> /\ upper(sql)[1] \in {"SELECT", "WITH"}

SuccessfulWrites ==
    {i \in ExecutorEntries(state.trace) :
        state.trace[i].success /\ ~IsReadQuery(state.trace[i - 1].sql)}

C18_ExecutorResult ==
    /\ (output # NoOutput /\ output.trace = <<>>) => pc # "executor"
    /\ reply.from = "executor" =>
          LET db == reply.value
              result == state.sql_result
          IN /\ db.fault # None =>
                   result = [columns |-> <<>>, rows |-> <<>>, error |-> db.fault]
             /\ db.fault = None =>
                   /\ result.error = None
                   /\ IsReadQuery(state.sql) =>
                         (result.columns = db.columns /\ result.rows = db.rows)
                   /\ ~IsReadQuery(state.sql) =>
                         (result.columns = <<>> /\ result.rows = <<>>)
    /\ commits = Cardinality(SuccessfulWrites)

(***************************************************************************)
(* C19.  For every query and every integer k >= 0 the retriever returns at *)
(* most k passages, in the order of non-increasing relevance score, and    *)
(* returns the empty sequence when the corpus is empty.                    *)
(***************************************************************************)
C19_AtMostKRanked ==
    rag.called =>
        /\ Len(rag.results) <= rag.k
        /\ \A i, j \in 1..Len(rag.results) :
              i < j => rag.results[i].score >= rag.results[j].score
        /\ rag.chunks = <<>> => rag.results = <<>>

(***************************************************************************)
(* C20.  Passage ids are deterministic and citable.  The ids of a source   *)
(* document are '<base name>::chunk<n>', where n counts the kept           *)
(* paragraphs of that source from 1 without gaps; the ids of the corpus    *)
(* are pairwise distinct; every retrieved passage is an indexed passage    *)
(* with its id, its source and its content, so its id contains '::'.  The  *)
(* ids are a function of the documents, so a second load of unchanged      *)
(* documents gives the same ids.                                           *)
(***************************************************************************)
BaseName(n) == <<markdown_files[n][1]>>

KeptParagraphs(n) ==
    LET paragraphs == re_split(rag.docs_dir[n].content)
    IN IF rag.docs_dir[n].exists
       THEN {i \in 1..Len(paragraphs) : Len(strip(paragraphs[i])) >= MinParagraphLen}
       ELSE {}

ChunksOf(n) == SelectSeq(rag.chunks, LAMBDA chunk : chunk.source = markdown_files[n])

C20_PassageIds ==
    /\ \A n \in 1..Len(markdown_files) :
          /\ Len(ChunksOf(n)) = Cardinality(KeptParagraphs(n))
          /\ \A c \in 1..Len(ChunksOf(n)) :
                ChunksOf(n)[c].id = BaseName(n) \o <<"::", "chunk", c>>
    /\ \A i \in 1..Len(rag.chunks) :
          \E n \in 1..Len(markdown_files) : rag.chunks[i].source = markdown_files[n]
    /\ \A i, j \in 1..Len(rag.chunks) :
          i # j => rag.chunks[i].id # rag.chunks[j].id
    /\ \A r \in 1..Len(rag.results) :
          /\ \E i \in 1..Len(rag.chunks) :
                /\ rag.results[r].id = rag.chunks[i].id
                /\ rag.results[r].source = rag.chunks[i].source
                /\ rag.results[r].content = rag.chunks[i].content
          /\ \E t \in 1..Len(rag.results[r].id) : rag.results[r].id[t] = "::"

C20_Witness ==
    /\ rag.called
    /\ rag.docs_dir[2].content = DocTwo
    /\ rag.docs_dir[3].content = DocOne
    /\ Len(rag.results) = 4
    /\ rag.results[1].id = <<"kpi_definitions", "::", "chunk", 2>>
    /\ rag.results[2].id = <<"catalog", "::", "chunk", 1>>

(***************************************************************************)
(* C21.  The planner is a pure function of the retrieved passages: run on  *)
(* another state with the same retrieved_chunks (another question, mode,   *)
(* format hint, answer, attempts) it gives the same constraints, and run   *)
(* a second time on the state it has just written it gives them again.     *)
(***************************************************************************)
OtherState(chunks) ==
    [initial_state("number") EXCEPT
        !.id = "q2", !.question = "Which category sold best?",
        !.mode = "rag", !.retrieved_chunks = chunks,
        !.constraints = <<"stale">>, !.sql = <<"UPDATE", "t">>,
        !.attempts = 2, !.final_answer = AnswerText, !.done = TRUE]

C21_PlannerPure ==
    [][ pc = "planner" =>
          /\ state'.constraints = planner_node(OtherState(state.retrieved_chunks)).constraints
          /\ planner_node(state').constraints = state'.constraints ]_vars

C21_Witness ==
    /\ reply.from = "planner"
    /\ state.mode = "hybrid"
    /\ state.retrieved_chunks # <<>>
    /\ state.constraints # <<"No specific constraints">>

(***************************************************************************)
(* C22.  After the planning step constraints is never empty or null: when  *)
(* no date and no formula hint is found in the retrieved passages, in      *)
(* particular when no passage was retrieved, as in sql mode, constraints   *)
(* is the literal fallback "no specific constraints".                      *)
(***************************************************************************)
Planned == calls["planner"] >= 1

NoHint ==
    \A i \in 1..Len(state.retrieved_chunks) :
        ChunkParts(state.retrieved_chunks[i]) = <<>>

C22_FallbackLowerCase ==
    Planned =>
        /\ state.constraints # <<>>
        /\ NoHint => state.constraints = <<"no specific constraints">>

(***************************************************************************)
(* C22, amended.  The same, with the fallback as the code writes it:       *)
(* "No specific constraints", with a capital N.                            *)
(***************************************************************************)
C22_Fallback ==
    Planned =>
        /\ state.constraints # <<>>
        /\ NoHint => state.constraints = <<"No specific constraints">>

C22_Witness ==
    /\ Planned
    /\ state.mode = "sql"
    /\ state.retrieved_chunks = <<>>
    /\ state.constraints = <<"No specific constraints">>
    /\ pc = "nl2sql"

(***************************************************************************)
(* C23.  The node sequence of a run follows the pipeline.  The router runs *)
(* once and first, the retriever at most once and only directly after the  *)
(* router, the planner once; every executor step comes directly after an   *)
(* nl2sql step and directly before a synthesizer step; every validation    *)
(* comes directly after a synthesizer step and is followed by nl2sql, by   *)
(* synthesizer or by the end of the run.                                   *)
(***************************************************************************)
C23_Pipeline ==
    /\ [](/\ pc = "router" => TotalCalls = 0
          /\ pc # "router" => calls["router"] = 1
          /\ calls["retriever"] <= 1
          /\ calls["planner"] <= 1
          /\ pc \notin {"router", "retriever", "planner"} => calls["planner"] = 1)
    /\ [][ pc' # pc =>
             /\ pc' # "router"
             /\ pc' = "retriever" => pc = "router"
             /\ pc' = "planner" => pc \in {"router", "retriever"}
             /\ pc' = "nl2sql" => pc \in {"planner", "validate_and_repair"}
             /\ pc' = "executor" <=> pc = "nl2sql"
             /\ pc = "executor" => pc' = "synthesizer"
             /\ pc' = "validate_and_repair" <=> pc = "synthesizer"
             /\ pc = "validate_and_repair" => pc' \in {"nl2sql", "synthesizer", "END"}
             /\ pc' = "END" => pc = "validate_and_repair" ]_vars

C23_Witness ==
    /\ pc = "END"
    /\ calls["router"] = 1
    /\ calls["retriever"] = 1
    /\ calls["planner"] = 1
    /\ calls["nl2sql"] = 2
    /\ calls["executor"] = 2
    /\ calls["synthesizer"] = 2
    /\ calls["validate_and_repair"] = 2

(***************************************************************************)
(* C24.  A run ends only directly after a validation that set done to      *)
(* true, so the last trace record of a completed run is a record of        *)
(* validate_and_repair with done true.  done is true with a non-empty      *)
(* issue list only when attempts >= 2; the issues are then in that trace   *)
(* record only: the returned record has no field for them.                 *)
(***************************************************************************)
LastRecord == state.trace[Len(state.trace)]

C24_EndAfterDone ==
    /\ [](/\ pc = "END" =>
                /\ state.done
                /\ reply.from = "validate_and_repair"
                /\ Len(state.trace) < MaxTrace =>
                      /\ LastRecord.node = "validate_and_repair"
                      /\ LastRecord.done
                      /\ LastRecord.issues = Issues(state)
                      /\ LastRecord.issues # <<>> => state.attempts >= 2
          /\ state.done => pc = "END"
          /\ (pc = "END" /\ output # NoOutput) =>
                /\ DOMAIN output = {"id", "question", "final_answer", "citations",
                                    "confidence", "explanation", "trace"}
                /\ output.trace = state.trace)
    /\ [][ (pc' = "END" /\ pc # "END") =>
             (pc = "validate_and_repair" /\ ~state.done /\ state'.done) ]_vars

C24_Witness ==
    /\ pc = "END"
    /\ output # NoOutput
    /\ Len(output.trace) < MaxTrace
    /\ output.trace[Len(output.trace)].done
    /\ output.trace[Len(output.trace)].issues # <<>>
    /\ state.attempts = 2

(***************************************************************************)
(* C25.  For mode rag or hybrid, a run that has ended with an empty        *)
(* citations list has attempts >= 2.  In rag mode attempts stays 0, so a   *)
(* rag run that has ended has at least one citation.                       *)
(***************************************************************************)
C25_CitationsOrCap ==
    /\ (pc = "END" /\ state.mode \in {"rag", "hybrid"} /\ state.citations = <<>>)
          => state.attempts >= 2
    /\ state.mode = "rag" => state.attempts = 0
    /\ (pc = "END" /\ state.mode = "rag") => Len(state.citations) >= 1

C25_Witness ==
    /\ pc = "END"
    /\ state.mode = "hybrid"
    /\ state.citations = <<>>
    /\ state.attempts = 2

(***************************************************************************)
(* C26.  Re-synthesis does not regenerate or re-run the query.  When the   *)
(* validation routes back to the synthesizer, the synthesizer step and the *)
(* validation after it leave sql, sql_result and attempts as they are:     *)
(* only final_answer, citations, confidence, explanation, done and trace   *)
(* may change.                                                             *)
(***************************************************************************)
SynthesisFields ==
    {"final_answer", "citations", "confidence", "explanation", "done", "trace"}

C26_ResynthesisFrame ==
    [][ (pc \in {"synthesizer", "validate_and_repair"} /\ pc' # pc) =>
          /\ state'.sql = state.sql
          /\ state'.sql_result = state.sql_result
          /\ state'.attempts = state.attempts
          /\ \A key \in DOMAIN state \ SynthesisFields : state'[key] = state[key]
          /\ (pc = "validate_and_repair" /\ pc' = "synthesizer") =>
                ~Truthy(Get(state.sql_result, "error", None)) ]_vars

C26_Witness ==
    /\ pc = "END"
    /\ state.mode = "sql"
    /\ calls["synthesizer"] = 2
    /\ calls["nl2sql"] = 1
    /\ calls["executor"] = 1
    /\ state.sql_result.rows # <<>>
    /\ state.attempts = 1

(***************************************************************************)
(* C27.  mode, retrieved_chunks and constraints are each written by one    *)
(* step (router, retriever, planner) and never change afterwards.  On a    *)
(* repair pass the constraints extended with the error go to the query     *)
(* generator, and the constraints field of the state stays as it is.  id,  *)
(* question and format_hint never change.                                  *)
(***************************************************************************)
C27_WrittenOnce ==
    /\ [](/\ calls["router"] <= 1 /\ calls["retriever"] <= 1 /\ calls["planner"] <= 1)
    /\ [][ /\ state'.mode # state.mode => (pc = "router" /\ calls["router"] = 0)
           /\ state'.retrieved_chunks # state.retrieved_chunks =>
                 (pc = "retriever" /\ calls["retriever"] = 0)
           /\ state'.constraints # state.constraints =>
                 (pc = "planner" /\ calls["planner"] = 0)
           /\ state'.id = state.id
           /\ state'.question = state.question
           /\ state'.format_hint = state.format_hint
           /\ (pc = "nl2sql" /\ pc' # pc /\ state.attempts > 0) =>
                 /\ reply'.value.constraints # state.constraints
                 /\ state'.constraints = state.constraints ]_vars

C27_Witness ==
    /\ reply.from = "nl2sql"
    /\ state.attempts = 1
    /\ state.mode = "hybrid"
    /\ state.retrieved_chunks # <<>>
    /\ reply.value.constraints # state.constraints

(***************************************************************************)
(* C28.  Query generation is entered again (attempts > 0) only when the    *)
(* query execution just before returned a non-empty error, and the         *)
(* constraints passed to the query generator are then the stored           *)
(* constraints extended with that error message and a repair instruction;  *)
(* the first entry (attempts = 0) passes the stored constraints unchanged. *)
(***************************************************************************)
C28_RepairEntry ==
    /\ [](/\ pc = "nl2sql" => (state.attempts > 0 <=> calls["nl2sql"] > 0)
          /\ (pc = "nl2sql" /\ state.attempts > 0) =>
                /\ state.sql_result.error \notin {None, ""}
                /\ state.attempts = calls["executor"]
                /\ Len(state.trace) < MaxTrace =>
                      \E i \in ExecutorEntries(state.trace) :
                          /\ \A h \in ExecutorEntries(state.trace) : h <= i
                          /\ state.trace[i].error = state.sql_result.error)
    /\ [][ (pc = "nl2sql" /\ pc' # pc) =>
             reply'.value.constraints =
                IF state.attempts > 0
                THEN state.constraints
                     \o <<"Previous SQL failed with:", state.sql_result.error,
                          "Please fix the SQL.">>
                ELSE state.constraints ]_vars

C28_Witness ==
    /\ reply.from = "nl2sql"
    /\ calls["nl2sql"] = 2
    /\ state.mode = "sql"
    /\ reply.value.constraints =
          <<"No specific constraints", "Previous SQL failed with:", "no such table",
            "Please fix the SQL.">>

(***************************************************************************)
(* C29.  The validation is a pure function of the state that does not      *)
(* stop at the first issue.  The step changes no field but done and trace. *)
(* Its issue list holds the issues in the order number format, JSON        *)
(* serialisability, missing citations, SQL, and whether a check reports    *)
(* its issue depends on that check's own condition only.                   *)
(***************************************************************************)
IssueKind(issue) ==
    CASE issue = <<"Answer should be a number">> -> 1
      [] issue = <<"Answer is not JSON serializable">> -> 2
      [] issue = <<"Missing citations">> -> 3
      [] OTHER -> 4

RecordedKinds ==
    {IssueKind(LastRecord.issues[i]) : i \in 1..Len(LastRecord.issues)}

C29_ValidatorChecks ==
    /\ [](( reply.from = "validate_and_repair" /\ Len(state.trace) < MaxTrace) =>
            /\ \A i, j \in 1..Len(LastRecord.issues) :
                  i < j => IssueKind(LastRecord.issues[i]) < IssueKind(LastRecord.issues[j])
            /\ 1 \in RecordedKinds <=>
                  (state.format_hint = "number" /\ ~NumericAnswer(state.final_answer))
            /\ 2 \in RecordedKinds <=> state.final_answer.kind # "str"
            /\ 3 \in RecordedKinds <=>
                  (state.mode \in {"rag", "hybrid"} /\ state.citations = <<>>)
            /\ 4 \in RecordedKinds <=>
                  /\ state.mode \in {"sql", "hybrid"}
                  /\ \/ state.sql_result.error # None
                     \/ state.sql_result.rows = <<>>)
    /\ [][ (pc = "validate_and_repair" /\ pc' # pc) =>
             \A key \in DOMAIN state \ {"done", "trace"} : state'[key] = state[key] ]_vars

C29_Witness ==
    /\ reply.from = "validate_and_repair"
    /\ Len(state.trace) < MaxTrace
    /\ RecordedKinds = {1, 3, 4}

(***************************************************************************)
(* C30.  The constraints are built passage by passage in arrival order:    *)
(* a passage with month + 4-digit-year mentions contributes one            *)
(* 'Relevant dates:' fragment that lists the month and year of each        *)
(* mention, a passage with 'Formula:' or 'SELECT' contributes one          *)
(* 'KPI formula found in <source>' fragment after its date fragment, and   *)
(* the fragments are joined with '; '.                                     *)
(***************************************************************************)
RECURSIVE MonthYearMentions(_)
MonthYearMentions(content) ==
    IF Len(content) < 2 THEN <<>>
    ELSE IF LowerWord(content[1]) \in Months /\ content[2] \in FourDigits
         THEN << <<content[1], content[2]>> >>
              \o MonthYearMentions(SubSeq(content, 3, Len(content)))
         ELSE MonthYearMentions(Tail(content))

StatedChunkParts(chunk) ==
    LET mentions == MonthYearMentions(chunk.content)
        words == {chunk.content[i] : i \in 1..Len(chunk.content)}
    IN (IF mentions # <<>>
        THEN << <<"Relevant dates:">> \o join(mentions, <<",">>) >>
        ELSE <<>>)
       \o
       (IF "Formula:" \in words \/ "SELECT" \in words
        THEN << <<"KPI formula found in", chunk.source>> >>
        ELSE <<>>)

RECURSIVE StatedParts(_)
StatedParts(chunks) ==
    IF chunks = <<>> THEN <<>>
    ELSE StatedChunkParts(Head(chunks)) \o StatedParts(Tail(chunks))

C30_DateFragments ==
    (Planned /\ StatedParts(state.retrieved_chunks) # <<>>) =>
        state.constraints = join(StatedParts(state.retrieved_chunks), <<";">>)

=============================================================================
